---- MODULE Spec2Model ----
(***************************************************************************)
(* Model of github.com/bobg/merkle: the streaming Merkle builder (HTree),  *)
(* its string layer (Tree) and Merkle proofs (Proof).                      *)
(*                                                                         *)
(* Byte strings are sequences of atoms.  An atom is either one raw byte    *)
(* <<"b", n>> or one digest <<"H", w>>, which stands for the hash.Size()   *)
(* bytes that a collision-free hash returns after the byte string w was    *)
(* written to it.  Go slices are modelled as references into a heap of     *)
(* buffers, so that two slices sharing a backing array share a heap cell.  *)
(*                                                                         *)
(* The Frontier trie (zerotier, unitier, arraytier) is modelled as nested   *)
(* records; SpecFrontier runs its methods Exclude, Check and Walk.         *)
(*                                                                         *)
(* SpecVariants runs the maptier and slicetier beside the arraytier,       *)
(* SpecReuse the caller's buffer of Tree.Add, SpecEmpty HTree.Add with an  *)
(* empty item, and SpecChan / SpecChanFair the channel-based HTree, whose  *)
(* caller and worker goroutine take one hasher call per step.              *)
(***************************************************************************)
EXTENDS Integers, Sequences, FiniteSets, TLC

\* ------------------------------------------------------------------ bounds
NumStrs == 2
MaxLeaves == 6
MaxLate == 1
NumBytes == 2
MaxStrLen == 2
MaxTrieBytes == 4
MaxChanLeaves == 3

\* ---------------------------------------------------------- hash primitive
B(n) == <<"b", n>>

\* hash.Hash: the state of a hasher is the byte string written since Reset.
Reset == <<>>

Write(hs, bytes) == hs \o bytes

\* Sum(out) appends the digest of what was written to out.
Sum(hs, out) == out \o << <<"H", hs>> >>

\* The strings the callers add: one-byte strings, as in TestMerkleRoot.
Strs == { <<B(k)>> : k \in 1..NumStrs }

\* A nil slice, a nil pointer: no buffer.
Nil == 0

\* ------------------------------------------------------------------ state
VARIABLES
    kind,        \* "Tree" (NewTree, NewProofTree) or "HTree" (NewHTree, NewProofHTree)
    hasher,      \* HTree.hasher: bytes written since its last Reset
    heap,        \* backing arrays of the slices, by buffer number
    hashes,      \* HTree.hashes: per level a buffer number, or Nil
    root,        \* HTree.root: Nil, or the buffer *root points into
    ref,         \* HTree.ref: Nil, or the buffer *ref points into
    proof,       \* HTree.proof.Steps (meaningful when ref # Nil)
    refStr,      \* the reference string of the proof tree (<<>> when none)
    added,       \* the strings added so far, in order
    late,        \* the number of Adds accepted after finalisation
    lastRoot,    \* the value the last Root() call returned (<<>> before)
    rootFresh,   \* Root() was called since the last Add
    lastProof,   \* the value the last Proof() call returned
    proofFresh,  \* Proof() was called since the last Add
    repeated,    \* the last finaliser call repeated one made since the last Add
    panicked,    \* the program panicked
    op,          \* the last operation
    top,         \* Frontier.top: the root tier of the trie
    excluded,    \* the strings passed to Frontier.Exclude so far
    fop,         \* the last Frontier operation
    farg,        \* its string argument (<<>> when it has none)
    fres,        \* the value the last Check call returned
    emitted,     \* the strings the last Walk passed to its callback, in order
    froot,       \* the root of the Tree the last MerkleTree call returned
    frepeat,     \* the last call was an Exclude or Walk repeating the call before it
    vtop,        \* the top of a second Frontier, whose unitiers grow into
                 \* arraytiers, maptiers or slicetiers, given the same Excludes
    strbuf,      \* the buffer of the caller's str passed to Tree.Add, or Nil
    \* The channel-based HTree: the caller and the worker goroutine.
    cpc,         \* where the caller is: "idle" between calls, or inside one
    ccall,       \* the call the caller is in or made last
    cstr,        \* the str of the Tree.Add in progress
    citem,       \* the buffer the caller is sending on h.ch
    wpc,         \* where the worker goroutine is
    wphase,      \* "add": in the loop over ch; "final": combining upward;
                 \* "empty": hashing the root of the empty tree
    wh,          \* the worker's h: the buffer received from ch
    wheight,     \* the worker's height
    wfin,        \* the worker's index in the final loop over hashes
    wstep,       \* interiorHash in progress recorded a proof step
    mu,          \* HTree.mu: "none", or the goroutine that holds it
    chOpen,      \* h.ch is open (Root and Proof close it and set it to nil)
    readyClosed, \* the worker has closed ready
    received     \* the number of items the worker has received from ch

tvars == <<kind, hasher, heap, hashes, root, ref, proof, refStr, added, late,
           lastRoot, rootFresh, lastProof, proofFresh, repeated, panicked, op>>

fvars == <<top, excluded, fop, farg, fres, emitted, froot, frepeat>>

\* The variables of the caller's side of Tree.Add.
xvars == <<strbuf>>

cvars == <<cpc, ccall, cstr, citem, wpc, wphase, wh, wheight, wfin, wstep,
           mu, chOpen, readyClosed, received>>

vars == <<tvars, fvars, vtop, xvars, cvars>>

\* The fields of the HTree, with the heap its slices point into.
HT == [hasher |-> hasher, heap |-> heap, hashes |-> hashes,
       root |-> root, ref |-> ref, proof |-> proof]

Assign(st) ==
    /\ hasher' = st.hasher
    /\ heap' = st.heap
    /\ hashes' = st.hashes
    /\ root' = st.root
    /\ ref' = st.ref
    /\ proof' = st.proof

\* ------------------------------------------------------------ hash helpers
\* LeafHash(h, out, in): Reset, Write 0x00, Write in, Sum(out).
LeafHashWritten(in) == Write(Write(Reset, <<B(0)>>), in)

LeafHash(out, in) == Sum(LeafHashWritten(in), out)

\* A new buffer holding bytes; the buffer's number is Len of the new heap.
Alloc(st, bytes) == [st EXCEPT !.heap = Append(@, bytes)]

\* Mutant of InteriorWritten: the right operand is written twice.
InteriorWritten_RightTwice(left, right) == Write(Write(Write(Reset, <<B(1)>>), right), right)

\* The bytes written by interiorHash: 0x01, left, right.
InteriorWritten(left, right) == Write(Write(Write(Reset, <<B(1)>>), left), right)

\* Mutants of interiorHash.
\* The side of the recorded step is inverted.
interiorHash_FlippedSide(st, out, left, right) ==
    LET l == st.heap[left]
        r == st.heap[right]
        isLeft == st.ref # Nil /\ st.heap[st.ref] = l
        isRight == st.ref # Nil /\ ~isLeft /\ st.heap[st.ref] = r
        hasStep == isLeft \/ isRight
        step == IF isLeft THEN [H |-> r, Left |-> TRUE]
                          ELSE [H |-> l, Left |-> FALSE]
        written == InteriorWritten(l, r)
    IN  [st EXCEPT !.proof = IF hasStep THEN Append(@, step) ELSE @,
                   !.hasher = written,
                   !.heap[out] = Sum(written, <<>>),
                   !.ref = IF hasStep THEN out ELSE @]

\* right is written to the hasher before left.
interiorHash_RightFirst(st, out, left, right) ==
    LET l == st.heap[left]
        r == st.heap[right]
        isLeft == st.ref # Nil /\ st.heap[st.ref] = l
        isRight == st.ref # Nil /\ ~isLeft /\ st.heap[st.ref] = r
        hasStep == isLeft \/ isRight
        step == IF isLeft THEN [H |-> r, Left |-> FALSE]
                          ELSE [H |-> l, Left |-> TRUE]
        written == InteriorWritten(r, l)
    IN  [st EXCEPT !.proof = IF hasStep THEN Append(@, step) ELSE @,
                   !.hasher = written,
                   !.heap[out] = Sum(written, <<>>),
                   !.ref = IF hasStep THEN out ELSE @]

\* When a step is recorded the digest goes to a new buffer for ref, and out
\* is left as it was.
interiorHash_StepSumsApart(st, out, left, right) ==
    LET l == st.heap[left]
        r == st.heap[right]
        isLeft == st.ref # Nil /\ st.heap[st.ref] = l
        isRight == st.ref # Nil /\ ~isLeft /\ st.heap[st.ref] = r
        hasStep == isLeft \/ isRight
        step == IF isLeft THEN [H |-> r, Left |-> FALSE]
                          ELSE [H |-> l, Left |-> TRUE]
        written == InteriorWritten(l, r)
    IN  IF hasStep
        THEN [st EXCEPT !.proof = Append(@, step),
                        !.hasher = written,
                        !.heap = Append(@, Sum(written, <<>>)),
                        !.ref = Len(st.heap) + 1]
        ELSE [st EXCEPT !.hasher = written,
                        !.heap[out] = Sum(written, <<>>)]

\* Only the left operand is compared with ref.
interiorHash_LeftOnly(st, out, left, right) ==
    LET l == st.heap[left]
        r == st.heap[right]
        isLeft == st.ref # Nil /\ st.heap[st.ref] = l
        step == [H |-> r, Left |-> FALSE]
        written == InteriorWritten(l, r)
    IN  [st EXCEPT !.proof = IF isLeft THEN Append(@, step) ELSE @,
                   !.hasher = written,
                   !.heap[out] = Sum(written, <<>>),
                   !.ref = IF isLeft THEN out ELSE @]

\* right is read after out was truncated: when out is right's buffer, right
\* reads as empty.
interiorHash_ReadsAfterTruncate(st, out, left, right) ==
    LET l == st.heap[left]
        r == IF out = right THEN <<>> ELSE st.heap[right]
        isLeft == st.ref # Nil /\ st.heap[st.ref] = l
        isRight == st.ref # Nil /\ ~isLeft /\ st.heap[st.ref] = r
        hasStep == isLeft \/ isRight
        step == IF isLeft THEN [H |-> r, Left |-> FALSE]
                          ELSE [H |-> l, Left |-> TRUE]
        written == InteriorWritten(l, r)
    IN  [st EXCEPT !.proof = IF hasStep THEN Append(@, step) ELSE @,
                   !.hasher = written,
                   !.heap[out] = Sum(written, <<>>),
                   !.ref = IF hasStep THEN out ELSE @]

\* interiorHash(h, out, left, right, ref, proof), where out is buffer[:0] of
\* buffer number out, with room for the digest: Sum writes into that buffer.
\* left and right are buffer numbers; both are read before Sum writes.
interiorHash(st, out, left, right) ==
    LET l == st.heap[left]
        r == st.heap[right]
        isLeft == st.ref # Nil /\ st.heap[st.ref] = l
        isRight == st.ref # Nil /\ ~isLeft /\ st.heap[st.ref] = r
        hasStep == isLeft \/ isRight
        step == IF isLeft THEN [H |-> r, Left |-> FALSE]
                          ELSE [H |-> l, Left |-> TRUE]
        written == InteriorWritten(l, r)
    IN  [st EXCEPT !.proof = IF hasStep THEN Append(@, step) ELSE @,
                   !.hasher = written,
                   !.heap[out] = Sum(written, <<>>),
                   !.ref = IF hasStep THEN out ELSE @]

\* ------------------------------------------------------------------ HTree
\* Mutant of AddLoop: the new item is the left operand of the combination.
RECURSIVE AddLoop_ItemLeft(_, _, _)
AddLoop_ItemLeft(st, height, item) ==
    IF height = Len(st.hashes)
    THEN [st EXCEPT !.hashes = Append(@, item)]
    ELSE IF st.hashes[height + 1] = Nil
         THEN [st EXCEPT !.hashes[height + 1] = item]
         ELSE AddLoop_ItemLeft(
                  [interiorHash(st, item, item, st.hashes[height + 1])
                      EXCEPT !.hashes[height + 1] = Nil],
                  height + 1, item)

\* Mutant of AddLoop: a combined level is not vacated.
RECURSIVE AddLoop_NoVacate(_, _, _)
AddLoop_NoVacate(st, height, item) ==
    IF height = Len(st.hashes)
    THEN [st EXCEPT !.hashes = Append(@, item)]
    ELSE IF st.hashes[height + 1] = Nil
         THEN [st EXCEPT !.hashes[height + 1] = item]
         ELSE AddLoop_NoVacate(interiorHash(st, item, st.hashes[height + 1], item),
                               height + 1, item)

\* The loop of HTree.Add from the given height on; item is a buffer number.
RECURSIVE AddLoop(_, _, _)
AddLoop(st, height, item) ==
    IF height = Len(st.hashes)
    THEN [st EXCEPT !.hashes = Append(@, item)]
    ELSE IF st.hashes[height + 1] = Nil
         THEN [st EXCEPT !.hashes[height + 1] = item]
         ELSE LET s1 == interiorHash(st, item, st.hashes[height + 1], item)
              IN  AddLoop([s1 EXCEPT !.hashes[height + 1] = Nil], height + 1, item)

\* Mutant of HTreeAddItem: every item gets a level of its own.
HTreeAddItem_KeepsAll(st, item) == [st EXCEPT !.hashes = Append(@, item)]

HTreeAddItem(st, item) == AddLoop(st, 0, item)

\* Mutant of FinishLoop: the accumulated root is the left operand.
RECURSIVE FinishLoop_RootLeft(_, _)
FinishLoop_RootLeft(st, i) ==
    IF i > Len(st.hashes) THEN st
    ELSE LET hh == st.hashes[i]
         IN  IF hh = Nil THEN FinishLoop_RootLeft(st, i + 1)
             ELSE IF st.root = Nil
                  THEN FinishLoop_RootLeft([st EXCEPT !.root = hh], i + 1)
                  ELSE FinishLoop_RootLeft(interiorHash(st, st.root, st.root, hh), i + 1)

\* The loop of HTree.finish over h.hashes, from index i on.
RECURSIVE FinishLoop(_, _)
FinishLoop(st, i) ==
    IF i > Len(st.hashes) THEN st
    ELSE LET hh == st.hashes[i]
         IN  IF hh = Nil THEN FinishLoop(st, i + 1)
             ELSE IF st.root = Nil THEN FinishLoop([st EXCEPT !.root = hh], i + 1)
             ELSE FinishLoop(interiorHash(st, st.root, hh, st.root), i + 1)

\* Mutants of finish.
\* The empty tree's root is summed without resetting the hasher.
finish_NoReset(st) ==
    IF st.root # Nil THEN st
    ELSE IF Len(st.hashes) = 0
         THEN LET s1 == Alloc(st, Sum(st.hasher, <<>>))
              IN  [s1 EXCEPT !.root = Len(s1.heap)]
         ELSE FinishLoop(st, 1)

\* The empty tree's root is the leaf hash of the empty string.
finish_EmptyLeafHash(st) ==
    IF st.root # Nil THEN st
    ELSE IF Len(st.hashes) = 0
         THEN LET s0 == [st EXCEPT !.hasher = LeafHashWritten(<<>>)]
                  s1 == Alloc(s0, Sum(s0.hasher, <<>>))
              IN  [s1 EXCEPT !.root = Len(s1.heap)]
         ELSE FinishLoop(st, 1)

\* finish runs again on a finalised tree.
finish_Again(st) ==
    IF Len(st.hashes) = 0
    THEN LET s0 == [st EXCEPT !.hasher = Reset]
             s1 == Alloc(s0, Sum(s0.hasher, <<>>))
         IN  [s1 EXCEPT !.root = Len(s1.heap)]
    ELSE FinishLoop(st, 1)

finish(st) ==
    IF st.root # Nil THEN st
    ELSE IF Len(st.hashes) = 0
         THEN LET s0 == [st EXCEPT !.hasher = Reset]
                  s1 == Alloc(s0, Sum(s0.hasher, <<>>))
              IN  [s1 EXCEPT !.root = Len(s1.heap)]
         ELSE FinishLoop(st, 1)

\* ------------------------------------------------------------------ Proof
\* One step of the loop of Proof.Hash on the accumulator result.
ProofHashStep(result, step) ==
    IF step.Left THEN Sum(InteriorWritten(step.H, result), <<>>)
                 ELSE Sum(InteriorWritten(result, step.H), <<>>)

RECURSIVE ProofHashLoop(_, _, _)
ProofHashLoop(result, steps, i) ==
    IF i > Len(steps) THEN result
    ELSE ProofHashLoop(ProofHashStep(result, steps[i]), steps, i + 1)

\* Mutant of ProofHash: the argument is never leaf-hashed.
ProofHash_NeverLeafHashes(p, arg) == ProofHashLoop(arg, p.Steps, 1)

\* Proof.Hash(hasher, ref).  In the else branch ref has the hash's size, so
\* copy(result, ref) copies the whole of ref.
ProofHash(p, arg) ==
    ProofHashLoop(IF p.needsLeafHashing THEN LeafHash(<<>>, arg) ELSE arg,
                  p.Steps, 1)

NoProof == [Steps |-> <<>>, needsLeafHashing |-> FALSE, returned |-> FALSE]

\* --------------------------------------------------------------- Frontier
\* The bytes of the Frontier's strings (a stand-in for 0..255) and the
\* strings passed to its methods.
FBytes == 1..NumBytes

FStrs == UNION { [1..n -> FBytes] : n \in 0..MaxStrLen }

\* The tiers: the nil interface value, zerotier{}, *unitier and *arraytier.
NilTier == [tag |-> "nil"]

Zero == [tag |-> "zero"]

Uni(b, t) == [tag |-> "uni", b |-> b, t |-> t]

Arr(el) == [tag |-> "array", el |-> el]

\* maptier: m is a function from the keys of the map to tiers.
Map(m) == [tag |-> "map", m |-> m]

\* slicetier: pairs is a sequence of slicetierpair records [b, t].
Slice(pairs) == [tag |-> "slice", pairs |-> pairs]

\* sort.Search(len(*t), t.finder(b)) between the 0-based indices i and j.
RECURSIVE Search(_, _, _, _)
Search(pairs, b, i, j) ==
    IF i < j
    THEN LET h == (i + j) \div 2
         IN  IF ~(pairs[h + 1].b >= b) THEN Search(pairs, b, h + 1, j)
             ELSE Search(pairs, b, i, h)
    ELSE i

\* (*slicetier).get
slicetier_get(t, b) ==
    LET index == Search(t.pairs, b, 0, Len(t.pairs))
    IN  IF index < Len(t.pairs) /\ t.pairs[index + 1].b = b
        THEN t.pairs[index + 1].t
        ELSE NilTier

\* tier.get(b)
get(tier, b) ==
    CASE tier.tag = "zero" -> NilTier
      [] tier.tag = "uni" -> IF tier.b = b THEN tier.t ELSE NilTier
      [] tier.tag = "array" -> tier.el[b]
      [] tier.tag = "map" -> IF b \in DOMAIN tier.m THEN tier.m[b] ELSE NilTier
      [] tier.tag = "slice" -> slicetier_get(tier, b)

\* tier.empty()
empty(tier) ==
    CASE tier.tag = "zero" -> TRUE
      [] tier.tag = "uni" -> FALSE
      [] tier.tag = "array" -> \A b \in FBytes : tier.el[b].tag = "nil"
      [] tier.tag = "map" -> DOMAIN tier.m = {}
      [] tier.tag = "slice" -> Len(tier.pairs) = 0

RECURSIVE set(_, _, _)

\* Mutant of arraytier_set: a tier already in the slot of the last byte is kept.
arraytier_set_KeepsSubtier(t, str, subtier) ==
    IF Len(str) = 1
    THEN IF t.el[str[1]].tag = "nil" THEN [t EXCEPT !.el[str[1]] = subtier] ELSE t
    ELSE LET el == IF t.el[str[1]].tag = "nil" THEN Uni(str[2], NilTier)
                   ELSE t.el[str[1]]
         IN  [t EXCEPT !.el[str[1]] = set(el, Tail(str), subtier)]

\* (*arraytier).set
arraytier_set(t, str, subtier) ==
    IF Len(str) = 1
    THEN [t EXCEPT !.el[str[1]] = subtier]
    ELSE LET el == IF t.el[str[1]].tag = "nil" THEN Uni(str[2], NilTier)
                   ELSE t.el[str[1]]
         IN  [t EXCEPT !.el[str[1]] = set(el, Tail(str), subtier)]

\* Mutant of unitier_set: a tier already below the last byte is kept.
unitier_set_KeepsSubtier(t, str, subtier) ==
    IF t.b = str[1]
    THEN IF Len(str) = 1
         THEN IF t.t.tag = "nil" THEN [t EXCEPT !.t = subtier] ELSE t
         ELSE LET sub == IF t.t.tag = "nil" THEN Uni(str[2], NilTier) ELSE t.t
              IN  [t EXCEPT !.t = set(sub, Tail(str), subtier)]
    ELSE arraytier_set(Arr([b \in FBytes |-> IF b = t.b THEN t.t ELSE NilTier]),
                       str, subtier)

\* Mutant of unitier_set: at the last byte an existing sub-tier is descended
\* into instead of replaced.
unitier_set_DescendsAtEnd(t, str, subtier) ==
    IF t.b = str[1]
    THEN IF Len(str) = 1
         THEN IF t.t.tag = "nil" THEN [t EXCEPT !.t = subtier]
              ELSE [t EXCEPT !.t = set(t.t, str, subtier)]
         ELSE LET sub == IF t.t.tag = "nil" THEN Uni(str[2], NilTier) ELSE t.t
              IN  [t EXCEPT !.t = set(sub, Tail(str), subtier)]
    ELSE arraytier_set(Arr([b \in FBytes |-> IF b = t.b THEN t.t ELSE NilTier]),
                       str, subtier)

\* (*unitier).set, for a non-nil receiver.
unitier_set(t, str, subtier) ==
    IF t.b = str[1]
    THEN IF Len(str) = 1
         THEN [t EXCEPT !.t = subtier]
         ELSE LET sub == IF t.t.tag = "nil" THEN Uni(str[2], NilTier) ELSE t.t
              IN  [t EXCEPT !.t = set(sub, Tail(str), subtier)]
    ELSE arraytier_set(Arr([b \in FBytes |-> IF b = t.b THEN t.t ELSE NilTier]),
                       str, subtier)

\* Mutant of zerotier_set: a terminal stays a terminal.
zerotier_set_Stays(z, str, subtier) == z

\* zerotier.set
zerotier_set(z, str, subtier) == unitier_set(Uni(str[1], NilTier), str, subtier)

\* tier.set(str, subtier), dispatched on the dynamic type.
set(tier, str, subtier) ==
    CASE tier.tag = "zero" -> zerotier_set(tier, str, subtier)
      [] tier.tag = "uni" -> unitier_set(tier, str, subtier)
      [] tier.tag = "array" -> arraytier_set(tier, str, subtier)

\* Mutant of ExcludeTop: the first Exclude makes the unitier and stops.
ExcludeTop_FirstLeavesUni(t, str) ==
    IF Len(str) = 0 THEN t
    ELSE IF t.tag = "nil" THEN Uni(str[1], NilTier)
    ELSE set(t, str, Zero)

\* The value of f.top after f.Exclude(str).
ExcludeTop(t, str) ==
    IF Len(str) = 0 THEN t
    ELSE set(IF t.tag = "nil" THEN Uni(str[1], NilTier) ELSE t, str, Zero)

\* Mutant of check: running off the trie counts as present.
RECURSIVE check_RunOffIsPresent(_, _, _)
check_RunOffIsPresent(tier, str, prefix) ==
    IF Len(str) = 0 THEN [prefix |-> prefix, ok |-> empty(tier)]
    ELSE LET subtier == get(tier, str[1])
         IN  IF subtier.tag = "nil" THEN [prefix |-> prefix, ok |-> TRUE]
             ELSE check_RunOffIsPresent(subtier, Tail(str), Append(prefix, str[1]))

\* check(tier, str, prefix)
RECURSIVE check(_, _, _)
check(tier, str, prefix) ==
    IF Len(str) = 0 THEN [prefix |-> prefix, ok |-> empty(tier)]
    ELSE LET subtier == get(tier, str[1])
         IN  IF subtier.tag = "nil" THEN [prefix |-> prefix, ok |-> empty(tier)]
             ELSE check(subtier, Tail(str), Append(prefix, str[1]))

\* Mutant of Check: with a nil top no prefix is found.
Check_NilIsAbsent(t, str) ==
    IF t.tag = "nil" THEN [prefix |-> <<>>, ok |-> FALSE]
    ELSE IF empty(t) THEN [prefix |-> <<>>, ok |-> TRUE]
    ELSE check(t, str, <<>>)

\* The pair returned by f.Check(str) when f.top is t.
Check(t, str) ==
    IF t.tag = "nil" \/ empty(t) THEN [prefix |-> <<>>, ok |-> TRUE]
    ELSE check(t, str, <<>>)

RECURSIVE walkHelper(_, _)

RECURSIVE walkLoop(_, _, _)

\* Mutant of walkLoop: the callback gets the prefix without the missing byte.
walkLoop_EmitsPrefix(tier, prefix, i) ==
    IF i > NumBytes THEN <<>>
    ELSE LET s == Append(prefix, i)
             subtier == get(tier, i)
         IN  (IF subtier.tag # "nil" THEN walkHelper(subtier, s) ELSE <<prefix>>)
             \o walkLoop(tier, prefix, i + 1)

\* Mutant of walkLoop: the bytes are visited from the highest down.
walkLoop_Descending(tier, prefix, i) ==
    IF i > NumBytes THEN <<>>
    ELSE LET s == Append(prefix, i)
             subtier == get(tier, i)
         IN  walkLoop(tier, prefix, i + 1)
             \o (IF subtier.tag # "nil" THEN walkHelper(subtier, s) ELSE <<s>>)

\* The loop of walkHelper from byte i on: the callback arguments, in order.
walkLoop(tier, prefix, i) ==
    IF i > NumBytes THEN <<>>
    ELSE LET s == Append(prefix, i)
             subtier == get(tier, i)
         IN  (IF subtier.tag # "nil" THEN walkHelper(subtier, s) ELSE <<s>>)
             \o walkLoop(tier, prefix, i + 1)

\* Mutant of walkHelper: nothing is emitted below a zerotier.
walkHelper_StopsAtZero(tier, prefix) ==
    IF tier.tag \in {"nil", "zero"} THEN <<>> ELSE walkLoop(tier, prefix, 1)

\* walkHelper(tier, fn, prefix): the callback arguments, in order.
walkHelper(tier, prefix) ==
    IF tier.tag = "nil" THEN <<>> ELSE walkLoop(tier, prefix, 1)

\* The callback arguments of f.Walk(fn) when f.top is t.
Walk(t) == walkHelper(t, <<>>)

NoResult == [prefix |-> <<>>, ok |-> FALSE]

\* The number of bytes in a set of strings.
RECURSIVE TotalLen(_)
TotalLen(S) ==
    IF S = {} THEN 0
    ELSE LET s == CHOOSE x \in S : TRUE IN Len(s) + TotalLen(S \ {s})

\* The zero Frontier.
FrontierNew ==
    /\ top = NilTier
    /\ excluded = {}
    /\ fop = "New"
    /\ farg = <<>>
    /\ fres = NoResult
    /\ emitted = <<>>
    /\ froot = <<>>
    /\ frepeat = FALSE

\* Mutant of Exclude: the empty string clears the frontier.
Exclude_EmptyClears(str) ==
    /\ TotalLen(excluded \cup {str}) <= MaxTrieBytes
    /\ top' = IF Len(str) = 0 THEN NilTier ELSE ExcludeTop(top, str)
    /\ excluded' = excluded \cup {str}
    /\ fop' = "Exclude"
    /\ farg' = str
    /\ fres' = NoResult
    /\ emitted' = <<>>
    /\ froot' = <<>>
    /\ frepeat' = (fop = "Exclude" /\ farg = str)

\* Frontier.Exclude(str)
Exclude(str) ==
    /\ TotalLen(excluded \cup {str}) <= MaxTrieBytes
    /\ top' = ExcludeTop(top, str)
    /\ excluded' = excluded \cup {str}
    /\ fop' = "Exclude"
    /\ farg' = str
    /\ fres' = NoResult
    /\ emitted' = <<>>
    /\ froot' = <<>>
    /\ frepeat' = (fop = "Exclude" /\ farg = str)

\* Frontier.Check(str)
FrontierCheck(str) ==
    /\ fres' = Check(top, str)
    /\ fop' = "Check"
    /\ farg' = str
    /\ emitted' = <<>>
    /\ froot' = <<>>
    /\ frepeat' = FALSE
    /\ UNCHANGED <<top, excluded>>

\* Mutant of FrontierWalk: the walk consumes the trie.
FrontierWalk_Consumes ==
    /\ emitted' = Walk(top)
    /\ fop' = "Walk"
    /\ farg' = <<>>
    /\ fres' = NoResult
    /\ froot' = <<>>
    /\ frepeat' = (fop = "Walk")
    /\ top' = NilTier
    /\ UNCHANGED excluded

\* Frontier.Walk(fn), with a callback that records its argument.
FrontierWalk ==
    /\ emitted' = Walk(top)
    /\ fop' = "Walk"
    /\ farg' = <<>>
    /\ fres' = NoResult
    /\ froot' = <<>>
    /\ frepeat' = (fop = "Walk")
    /\ UNCHANGED <<top, excluded>>

\* ---------------------------------------------------------- tier variants
\* The tier a unitier grows into when a second byte arrives: the arraytier
\* of unitier.set, or a maptier or slicetier holding the same pair.
Variants == {"array", "map", "slice"}

\* sort.Slice(*t, ...) by ascending b; the bytes of the pairs are distinct.
RECURSIVE SortPairs(_)
SortPairs(pairs) ==
    IF Len(pairs) <= 1 THEN pairs
    ELSE LET m == CHOOSE i \in 1..Len(pairs) :
                      \A j \in 1..Len(pairs) : pairs[i].b <= pairs[j].b
         IN  <<pairs[m]>> \o
             SortPairs([k \in 1..(Len(pairs) - 1) |->
                           IF k < m THEN pairs[k] ELSE pairs[k + 1]])

RECURSIVE vset(_, _, _, _)

\* (*arraytier).set in a frontier that grows into variant v.
varraytier_set(v, t, str, subtier) ==
    IF Len(str) = 1
    THEN [t EXCEPT !.el[str[1]] = subtier]
    ELSE LET el == IF t.el[str[1]].tag = "nil" THEN Uni(str[2], NilTier)
                   ELSE t.el[str[1]]
         IN  [t EXCEPT !.el[str[1]] = vset(v, el, Tail(str), subtier)]

\* maptier.set
maptier_set(v, t, str, subtier) ==
    LET put(x) == Map([b \in DOMAIN t.m \cup {str[1]} |->
                          IF b = str[1] THEN x ELSE t.m[b]])
    IN  IF Len(str) = 1
        THEN put(subtier)
        ELSE LET el == IF str[1] \in DOMAIN t.m THEN t.m[str[1]]
                       ELSE Uni(str[2], NilTier)
             IN  put(vset(v, el, Tail(str), subtier))

\* Mutant of slicetier_set: a new pair is appended and the slice is not sorted.
slicetier_set_Unsorted(v, t, str, subtier) ==
    LET index == Search(t.pairs, str[1], 0, Len(t.pairs))
    IN  IF Len(t.pairs) = 0
        THEN vset(v, Uni(str[1], NilTier), str, subtier)
        ELSE IF index < Len(t.pairs) /\ t.pairs[index + 1].b = str[1]
        THEN IF Len(str) = 1
             THEN [t EXCEPT !.pairs[index + 1].t = subtier]
             ELSE LET sub == IF t.pairs[index + 1].t.tag = "nil"
                             THEN Uni(str[2], NilTier)
                             ELSE t.pairs[index + 1].t
                  IN  [t EXCEPT !.pairs[index + 1].t =
                                    vset(v, sub, Tail(str), subtier)]
        ELSE LET newtier == IF Len(str) = 1 THEN subtier
                            ELSE vset(v, Uni(str[2], NilTier), Tail(str), subtier)
             IN  Slice(Append(t.pairs, [b |-> str[1], t |-> newtier]))

\* (*slicetier).set
slicetier_set(v, t, str, subtier) ==
    LET index == Search(t.pairs, str[1], 0, Len(t.pairs))
    IN  IF Len(t.pairs) = 0
        THEN vset(v, Uni(str[1], NilTier), str, subtier)
        ELSE IF index < Len(t.pairs) /\ t.pairs[index + 1].b = str[1]
        THEN IF Len(str) = 1
             THEN [t EXCEPT !.pairs[index + 1].t = subtier]
             ELSE LET sub == IF t.pairs[index + 1].t.tag = "nil"
                             THEN Uni(str[2], NilTier)
                             ELSE t.pairs[index + 1].t
                  IN  [t EXCEPT !.pairs[index + 1].t =
                                    vset(v, sub, Tail(str), subtier)]
        ELSE LET newtier == IF Len(str) = 1 THEN subtier
                            ELSE vset(v, Uni(str[2], NilTier), Tail(str), subtier)
             IN  Slice(SortPairs(Append(t.pairs, [b |-> str[1], t |-> newtier])))

\* The tier that takes the place of a unitier holding (b, t) when it grows.
Promote(v, b, t) ==
    CASE v = "array" -> Arr([x \in FBytes |-> IF x = b THEN t ELSE NilTier])
      [] v = "map" -> Map([x \in {b} |-> t])
      [] v = "slice" -> Slice(<< [b |-> b, t |-> t] >>)

\* (*unitier).set in a frontier that grows into variant v.
vunitier_set(v, t, str, subtier) ==
    IF t.b = str[1]
    THEN IF Len(str) = 1
         THEN [t EXCEPT !.t = subtier]
         ELSE LET sub == IF t.t.tag = "nil" THEN Uni(str[2], NilTier) ELSE t.t
              IN  [t EXCEPT !.t = vset(v, sub, Tail(str), subtier)]
    ELSE vset(v, Promote(v, t.b, t.t), str, subtier)

\* tier.set(str, subtier) in a frontier that grows into variant v.
vset(v, tier, str, subtier) ==
    CASE tier.tag = "zero" -> vunitier_set(v, Uni(str[1], NilTier), str, subtier)
      [] tier.tag = "uni" -> vunitier_set(v, tier, str, subtier)
      [] tier.tag = "array" -> varraytier_set(v, tier, str, subtier)
      [] tier.tag = "map" -> maptier_set(v, tier, str, subtier)
      [] tier.tag = "slice" -> slicetier_set(v, tier, str, subtier)

\* The value of f.top after f.Exclude(str) in such a frontier.
VExcludeTop(v, t, str) ==
    IF Len(str) = 0 THEN t
    ELSE vset(v, IF t.tag = "nil" THEN Uni(str[1], NilTier) ELSE t, str, Zero)

\* ------------------------------------------------------------ constructors
\* newHTree(hasher, ref); refBytes is <<>> for a nil ref.
newHTree(refBytes) ==
    /\ hashes = <<>>
    /\ root = Nil
    /\ proof = <<>>
    /\ IF refBytes = <<>>
       THEN heap = <<>> /\ ref = Nil
       ELSE heap = <<refBytes>> /\ ref = 1

Fresh ==
    /\ added = <<>>
    /\ late = 0
    /\ lastRoot = <<>>
    /\ rootFresh = FALSE
    /\ lastProof = NoProof
    /\ proofFresh = FALSE
    /\ repeated = FALSE
    /\ panicked = FALSE
    /\ op = "New"

NewTree ==
    /\ kind = "Tree"
    /\ refStr = <<>>
    /\ hasher = Reset
    /\ newHTree(<<>>)

NewProofTree(s) ==
    /\ kind = "Tree"
    /\ refStr = s
    /\ hasher = LeafHashWritten(s)
    /\ newHTree(LeafHash(<<>>, s))

NewHTree ==
    /\ kind = "HTree"
    /\ refStr = <<>>
    /\ hasher = Reset
    /\ newHTree(<<>>)

\* The reference hash is a leaf hash, computed by the caller.
NewProofHTree(s) ==
    /\ kind = "HTree"
    /\ refStr = s
    /\ hasher = Reset
    /\ newHTree(LeafHash(<<>>, s))

\* No caller's buffer yet; the caller between calls, the worker goroutine at
\* "for h := range ch", both channels open, the mutex free.
NoCaller ==
    /\ strbuf = Nil
    /\ cpc = "idle"
    /\ ccall = "none"
    /\ cstr = <<>>
    /\ citem = Nil
    /\ wpc = "recv"
    /\ wphase = "add"
    /\ wh = Nil
    /\ wheight = 0
    /\ wfin = 0
    /\ wstep = FALSE
    /\ mu = "none"
    /\ chOpen = TRUE
    /\ readyClosed = FALSE
    /\ received = 0

Init ==
    /\ Fresh
    /\ FrontierNew
    /\ vtop = NilTier
    /\ NoCaller
    /\ \/ NewTree
       \/ \E s \in Strs : NewProofTree(s)
       \/ NewHTree
       \/ \E s \in Strs : NewProofHTree(s)

\* ---------------------------------------------------------------- actions
AfterAdd(s) ==
    /\ added' = Append(added, s)
    /\ late' = IF root # Nil THEN late + 1 ELSE late
    /\ rootFresh' = FALSE
    /\ proofFresh' = FALSE
    /\ repeated' = FALSE
    /\ op' = "Add"
    /\ UNCHANGED <<kind, refStr, lastRoot, lastProof, panicked>>

\* Tree.Add(str): leaf-hash str into a new buffer lh, then htree.Add(lh).
TreeAdd(s) ==
    /\ kind = "Tree"
    /\ ~panicked
    /\ Len(added) < MaxLeaves
    /\ root # Nil => late < MaxLate
    /\ LET s1 == Alloc([HT EXCEPT !.hasher = LeafHashWritten(s)], LeafHash(<<>>, s))
       IN  Assign(HTreeAddItem(s1, Len(s1.heap)))
    /\ AfterAdd(s)

\* HTree.Add(item): item is the caller's buffer holding the leaf hash of s.
HTreeAdd(s) ==
    /\ kind = "HTree"
    /\ ~panicked
    /\ Len(added) < MaxLeaves
    /\ root # Nil => late < MaxLate
    /\ LET s1 == Alloc(HT, LeafHash(<<>>, s))
       IN  Assign(HTreeAddItem(s1, Len(s1.heap)))
    /\ AfterAdd(s)

\* HTree.Root(), and Tree.Root() which delegates to it.
Root ==
    /\ ~panicked
    /\ LET s1 == finish(HT)
       IN  /\ Assign(s1)
           /\ lastRoot' = s1.heap[s1.root]
    /\ rootFresh' = TRUE
    /\ repeated' = rootFresh
    /\ op' = "Root"
    /\ UNCHANGED <<kind, refStr, added, late, lastProof, proofFresh, panicked>>

\* Mutant of Proof: without a reference the zero Proof is returned.
Proof_ReturnsZeroProof ==
    /\ ~panicked
    /\ Assign(finish(HT))
    /\ lastProof' = [Steps |-> IF ref = Nil THEN <<>> ELSE finish(HT).proof,
                     needsLeafHashing |-> (kind = "Tree"),
                     returned |-> TRUE]
    /\ proofFresh' = TRUE
    /\ repeated' = proofFresh
    /\ op' = "Proof"
    /\ UNCHANGED <<kind, refStr, added, late, lastRoot, rootFresh, panicked>>

\* HTree.Proof(), and Tree.Proof() which sets needsLeafHashing on the result.
\* Without a reference h.proof is nil and *h.proof panics, after finish ran.
Proof ==
    /\ ~panicked
    /\ Assign(finish(HT))
    /\ IF ref = Nil
       THEN /\ panicked' = TRUE
            /\ UNCHANGED <<lastProof, proofFresh>>
       ELSE /\ lastProof' = [Steps |-> finish(HT).proof,
                             needsLeafHashing |-> (kind = "Tree"),
                             returned |-> TRUE]
            /\ proofFresh' = TRUE
            /\ UNCHANGED panicked
    /\ repeated' = proofFresh
    /\ op' = "Proof"
    /\ UNCHANGED <<kind, refStr, added, late, lastRoot, rootFresh>>

Next ==
    \/ \E s \in Strs : TreeAdd(s) /\ UNCHANGED <<cvars, fvars, vtop, xvars>>
    \/ \E s \in Strs : HTreeAdd(s) /\ UNCHANGED <<cvars, fvars, vtop, xvars>>
    \/ Root /\ UNCHANGED <<cvars, fvars, vtop, xvars>>
    \/ Proof /\ UNCHANGED <<cvars, fvars, vtop, xvars>>

Spec == Init /\ [][Next]_vars

\* ------------------------------------------------ Frontier specification
\* A tree without a reference fed seq with HTree.Add, then finalised.
RECURSIVE Feed(_, _, _)
Feed(st, seq, i) ==
    IF i > Len(seq) THEN st
    ELSE LET s1 == Alloc(st, LeafHash(<<>>, seq[i]))
         IN  Feed(HTreeAddItem(s1, Len(s1.heap)), seq, i + 1)

PlainRoot(seq) ==
    LET s0 == [hasher |-> Reset, heap |-> <<>>, hashes |-> <<>>,
               root |-> Nil, ref |-> Nil, proof |-> <<>>]
        s1 == finish(Feed(s0, seq, 1))
    IN  s1.heap[s1.root]

\* The root of the Tree that f.MerkleTree builds when f.top is t.
MerkleTreeRoot(t) ==
    LET strs == Walk(t)
    IN  PlainRoot([i \in 1..Len(strs) |->
                      [j \in 1..Len(strs[i]) |-> B(strs[i][j])]])

\* Frontier.MerkleTree(hasher), followed by Root() on the Tree it returns.
FrontierMerkleTree ==
    /\ froot' = MerkleTreeRoot(top)
    /\ fop' = "MerkleTree"
    /\ farg' = <<>>
    /\ fres' = NoResult
    /\ emitted' = <<>>
    /\ frepeat' = FALSE
    /\ UNCHANGED <<top, excluded>>

InitFrontier == Fresh /\ NewTree /\ FrontierNew /\ vtop = NilTier /\ NoCaller

NextFrontier ==
    \/ \E s \in FStrs : Exclude(s) /\ UNCHANGED <<cvars, tvars, vtop, xvars>>
    \/ \E s \in FStrs : FrontierCheck(s) /\ UNCHANGED <<cvars, tvars, vtop, xvars>>
    \/ FrontierWalk /\ UNCHANGED <<cvars, tvars, vtop, xvars>>
    \/ FrontierMerkleTree /\ UNCHANGED <<cvars, tvars, vtop, xvars>>

SpecFrontier == InitFrontier /\ [][NextFrontier]_vars

\* --------------------------------------------- tier variants specification
\* Exclude(str) on the Frontier and on the second Frontier, whose unitiers
\* grow into variant v during this call.
ExcludeVariant(str, v) ==
    /\ Exclude(str)
    /\ vtop' = VExcludeTop(v, vtop, str)

NextVariants ==
    \E s \in FStrs, v \in Variants : ExcludeVariant(s, v) /\ UNCHANGED <<cvars, tvars, xvars>>

SpecVariants == InitFrontier /\ [][NextVariants]_vars

\* ------------------------------------------- caller's buffer specification
\* The caller writes s into the space of str: a new buffer the first time,
\* the same buffer afterwards ("The caller may reuse the space in str").
CallerWrites(s) ==
    /\ ~panicked
    /\ IF strbuf = Nil
       THEN /\ heap' = Append(heap, s)
            /\ strbuf' = Len(heap) + 1
       ELSE /\ heap[strbuf] # s
            /\ heap' = [heap EXCEPT ![strbuf] = s]
            /\ UNCHANGED strbuf
    /\ op' = "Write"
    /\ UNCHANGED <<kind, hasher, hashes, root, ref, proof, refStr, added, late,
                   lastRoot, rootFresh, lastProof, proofFresh, repeated, panicked>>

\* Mutant of TreeAddBuf: the leaf hash is summed into the space of str, and
\* that buffer is handed to htree.Add.
TreeAddBuf_HashesInPlace(st, str) ==
    HTreeAddItem([st EXCEPT !.hasher = LeafHashWritten(st.heap[str]),
                            !.heap[str] = LeafHash(<<>>, st.heap[str])], str)

\* Tree.Add(str), str a buffer of the caller: the leaf hash of its bytes is
\* summed into a new buffer lh, and htree.Add(lh) follows.
TreeAddBuf(st, str) ==
    LET s1 == Alloc([st EXCEPT !.hasher = LeafHashWritten(st.heap[str])],
                    LeafHash(<<>>, st.heap[str]))
    IN  HTreeAddItem(s1, Len(s1.heap))

\* m.Add(str) before finalisation, with the caller's buffer as str.
TreeAddStr ==
    /\ kind = "Tree"
    /\ ~panicked
    /\ strbuf # Nil
    /\ root = Nil
    /\ Len(added) < MaxLeaves
    /\ Assign(TreeAddBuf(HT, strbuf))
    /\ AfterAdd(heap[strbuf])
    /\ UNCHANGED strbuf

InitReuse ==
    /\ Fresh
    /\ FrontierNew
    /\ vtop = NilTier
    /\ NoCaller
    /\ \/ NewTree
       \/ \E s \in Strs : NewProofTree(s)

NextReuse ==
    \/ \E s \in Strs : CallerWrites(s) /\ UNCHANGED <<cvars, fvars, vtop>>
    \/ TreeAddStr /\ UNCHANGED <<cvars, fvars, vtop>>
    \/ Root /\ UNCHANGED <<cvars, fvars, vtop, xvars>>
    \/ Proof /\ UNCHANGED <<cvars, fvars, vtop, xvars>>

SpecReuse == InitReuse /\ [][NextReuse]_vars

\* ------------------------------------------------ empty item specification
\* interiorHash(h.hasher, item[:0], left, item, h.ref, h.proof) with item nil
\* or of length and capacity zero: right is empty, Sum(item[:0]) makes a new
\* array for the digest, and item itself stays as it was.
interiorHashEmptyItem(st, left) ==
    LET l == st.heap[left]
        r == <<>>
        isLeft == st.ref # Nil /\ st.heap[st.ref] = l
        isRight == st.ref # Nil /\ ~isLeft /\ st.heap[st.ref] = r
        hasStep == isLeft \/ isRight
        step == IF isLeft THEN [H |-> r, Left |-> FALSE]
                          ELSE [H |-> l, Left |-> TRUE]
        written == InteriorWritten(l, r)
    IN  [st EXCEPT !.proof = IF hasStep THEN Append(@, step) ELSE @,
                   !.hasher = written,
                   !.heap = Append(@, Sum(written, <<>>)),
                   !.ref = IF hasStep THEN Len(st.heap) + 1 ELSE @]

\* The loop of HTree.Add for such an item (Nil, or a buffer holding <<>>).
RECURSIVE AddEmptyLoop(_, _, _)
AddEmptyLoop(st, height, item) ==
    IF height = Len(st.hashes)
    THEN [st EXCEPT !.hashes = Append(@, item)]
    ELSE IF st.hashes[height + 1] = Nil
         THEN [st EXCEPT !.hashes[height + 1] = item]
         ELSE AddEmptyLoop(
                  [interiorHashEmptyItem(st, st.hashes[height + 1])
                      EXCEPT !.hashes[height + 1] = Nil],
                  height + 1, item)

\* h.Add(item) with a nil item (isNil) or with []byte{}.  Nothing in Add
\* looks at the length of item: the call returns normally.
HTreeAddEmpty(isNil) ==
    /\ kind = "HTree"
    /\ ~panicked
    /\ Len(added) < MaxLeaves
    /\ IF isNil
       THEN Assign(AddEmptyLoop(HT, 0, Nil))
       ELSE LET s1 == Alloc(HT, <<>>)
            IN  Assign(AddEmptyLoop(s1, 0, Len(s1.heap)))
    /\ AfterAdd(<<>>)

\* h.Add(item) with a leaf hash, before finalisation.
HTreeAddLeaf(s) == root = Nil /\ HTreeAdd(s)

InitEmpty ==
    /\ Fresh
    /\ FrontierNew
    /\ vtop = NilTier
    /\ NoCaller
    /\ \/ NewHTree
       \/ \E s \in Strs : NewProofHTree(s)

NextEmpty ==
    \/ \E s \in Strs : HTreeAddLeaf(s) /\ UNCHANGED <<cvars, fvars, vtop, xvars>>
    \/ \E isNil \in BOOLEAN : HTreeAddEmpty(isNil) /\ UNCHANGED <<cvars, fvars, vtop, xvars>>

SpecEmpty == InitEmpty /\ [][NextEmpty]_vars

\* ------------------------------------------ channel-based HTree (part_005)
\* The caller's goroutine runs Tree.Add / HTree.Add / Root / Proof; the
\* worker goroutine started by newHTree runs the loop over ch and the final
\* combination.  hashes, root, ref and proof are the worker's variables,
\* hasher is shared under mu.  Every hasher method call is one step.
callvars == <<cpc, ccall, cstr, citem>>

workvars == <<wpc, wphase, wh, wheight, wfin, wstep, received>>

\* Variables the channel-based tree does not have.
unused == <<kind, refStr, late, rootFresh, proofFresh, repeated, panicked,
            fvars, vtop, strbuf>>

\* Mutant of Lock: the mutex is taken whoever holds it.
Lock_Barging(who) == mu' = who

\* h.mu.Lock() by goroutine who: blocks while the mutex is held.
Lock(who) == mu = "none" /\ mu' = who

\* h.mu.Unlock().
Unlock(who) == mu = who /\ mu' = "none"

\* m.Add(str) / h.Add(item) is called.  Tree.Add goes on to withHasher;
\* HTree.Add has the caller's leaf hash in a buffer and goes on to the send.
CallAdd(s) ==
    /\ cpc = "idle"
    /\ Len(added) < MaxChanLeaves
    /\ added' = Append(added, s)
    /\ ccall' = "Add"
    /\ op' = "Add"
    /\ IF kind = "Tree"
       THEN /\ cpc' = "lock"
            /\ cstr' = s
            /\ UNCHANGED <<citem, heap>>
       ELSE /\ cpc' = "send"
            /\ heap' = Append(heap, LeafHash(<<>>, s))
            /\ citem' = Len(heap) + 1
            /\ UNCHANGED cstr
    /\ UNCHANGED <<hasher, hashes, root, ref, proof, lastRoot, lastProof,
                   workvars, mu, chOpen, readyClosed>>

\* Tree.Add: withHasher takes the mutex.
CallerLock ==
    /\ cpc = "lock"
    /\ Lock("caller")
    /\ cpc' = "reset"
    /\ UNCHANGED <<ccall, cstr, citem, hasher, heap, hashes, root, ref, proof,
                   added, lastRoot, lastProof, op, workvars, chOpen, readyClosed>>

\* LeafHash(hasher, lh[:0], str), one hasher call at a time.  lh is made
\* before Reset; nothing reads it before Sum, where it enters the heap.
CallerHash ==
    /\ cpc \in {"reset", "write0", "writeStr"}
    /\ hasher' = CASE cpc = "reset" -> Reset
                   [] cpc = "write0" -> Write(hasher, <<B(0)>>)
                   [] cpc = "writeStr" -> Write(hasher, cstr)
    /\ cpc' = CASE cpc = "reset" -> "write0"
                [] cpc = "write0" -> "writeStr"
                [] cpc = "writeStr" -> "sum"
    /\ UNCHANGED <<ccall, cstr, citem, heap, hashes, root, ref, proof,
                   added, lastRoot, lastProof, op, workvars, mu, chOpen, readyClosed>>

CallerSum ==
    /\ cpc = "sum"
    /\ heap' = Append(heap, Sum(hasher, <<>>))
    /\ citem' = Len(heap) + 1
    /\ cpc' = "unlock"
    /\ UNCHANGED <<ccall, cstr, hasher, hashes, root, ref, proof,
                   added, lastRoot, lastProof, op, workvars, mu, chOpen, readyClosed>>

\* Mutant of CallerUnlock: the mutex is not released.
CallerUnlock_Forgotten ==
    /\ cpc = "unlock"
    /\ cpc' = "send"
    /\ UNCHANGED <<ccall, cstr, citem, hasher, heap, hashes, root, ref, proof,
                   added, lastRoot, lastProof, op, workvars, mu, chOpen, readyClosed>>

\* withHasher releases the mutex; m.htree.Add(lh) follows, outside of it.
CallerUnlock ==
    /\ cpc = "unlock"
    /\ Unlock("caller")
    /\ cpc' = "send"
    /\ UNCHANGED <<ccall, cstr, citem, hasher, heap, hashes, root, ref, proof,
                   added, lastRoot, lastProof, op, workvars, chOpen, readyClosed>>

\* h.ch <- item meets "for h := range ch": ch is unbuffered, so the send
\* returns when the worker receives.  A send on the nil channel that Root
\* and Proof leave in h.ch blocks for ever.
Send ==
    /\ cpc = "send"
    /\ chOpen
    /\ wpc = "recv"
    /\ cpc' = "idle"
    /\ wh' = citem
    /\ wheight' = 0
    /\ wpc' = "level"
    /\ received' = received + 1
    /\ UNCHANGED <<ccall, cstr, citem, hasher, heap, hashes, root, ref, proof,
                   added, lastRoot, lastProof, op, wphase, wfin, wstep,
                   mu, chOpen, readyClosed>>

\* Root() / Proof() is called: close(h.ch) and h.ch = nil unless done
\* before, then the caller waits on ready.
CallFinaliser(call) ==
    /\ cpc = "idle"
    /\ ccall' = call
    /\ chOpen' = FALSE
    /\ cpc' = "wait"
    /\ UNCHANGED <<cstr, citem, hasher, heap, hashes, root, ref, proof,
                   added, lastRoot, lastProof, op, workvars, mu, readyClosed>>

\* Mutant of CallerReturn: the caller does not wait for ready.
CallerReturn_NoWait ==
    /\ cpc = "wait"
    /\ cpc' = "idle"
    /\ op' = ccall
    /\ IF ccall = "Root"
       THEN /\ lastRoot' = IF root = Nil THEN <<>> ELSE heap[root]
            /\ UNCHANGED lastProof
       ELSE /\ lastProof' = [Steps |-> proof, needsLeafHashing |-> FALSE,
                             returned |-> TRUE]
            /\ UNCHANGED lastRoot
    /\ UNCHANGED <<ccall, cstr, citem, hasher, heap, hashes, root, ref, proof,
                   added, workvars, mu, chOpen, readyClosed>>

\* <-h.ready returns once ready is closed; Root returns *h.root, Proof
\* returns *h.proof (a nil root reads as the empty slice).
CallerReturn ==
    /\ cpc = "wait"
    /\ readyClosed
    /\ cpc' = "idle"
    /\ op' = ccall
    /\ IF ccall = "Root"
       THEN /\ lastRoot' = IF root = Nil THEN <<>> ELSE heap[root]
            /\ UNCHANGED lastProof
       ELSE /\ lastProof' = [Steps |-> proof, needsLeafHashing |-> FALSE,
                             returned |-> TRUE]
            /\ UNCHANGED lastRoot
    /\ UNCHANGED <<ccall, cstr, citem, hasher, heap, hashes, root, ref, proof,
                   added, workvars, mu, chOpen, readyClosed>>

\* The worker: "for h := range ch" ends when ch is closed.
WorkerRangeEnds ==
    /\ wpc = "recv"
    /\ ~chOpen
    /\ IF Len(hashes) = 0
       THEN wphase' = "empty" /\ wpc' = "lock" /\ UNCHANGED wfin
       ELSE wphase' = "final" /\ wpc' = "final" /\ wfin' = 1
    /\ UNCHANGED <<callvars, hasher, heap, hashes, root, ref, proof,
                   added, lastRoot, lastProof, op, wh, wheight, wstep, received,
                   mu, chOpen, readyClosed>>

\* One turn of "for height := 0; ; height++" up to the call of withHasher.
WorkerLevel ==
    /\ wpc = "level"
    /\ IF wheight = Len(hashes)
       THEN hashes' = Append(hashes, wh) /\ wpc' = "recv"
       ELSE IF hashes[wheight + 1] = Nil
            THEN hashes' = [hashes EXCEPT ![wheight + 1] = wh] /\ wpc' = "recv"
            ELSE wpc' = "lock" /\ UNCHANGED hashes
    /\ UNCHANGED <<callvars, hasher, heap, root, ref, proof,
                   added, lastRoot, lastProof, op, wphase, wh, wheight, wfin,
                   wstep, received, mu, chOpen, readyClosed>>

\* One turn of the final loop over hashes up to the call of withHasher; at
\* its end the goroutine returns and the deferred close(ready) runs.
WorkerFinal ==
    /\ wpc = "final"
    /\ IF wfin > Len(hashes)
       THEN /\ readyClosed' = TRUE
            /\ wpc' = "done"
            /\ UNCHANGED <<root, wfin>>
       ELSE IF hashes[wfin] = Nil
            THEN wfin' = wfin + 1 /\ UNCHANGED <<root, wpc, readyClosed>>
            ELSE IF root = Nil
                 THEN /\ root' = hashes[wfin]
                      /\ wfin' = wfin + 1
                      /\ UNCHANGED <<wpc, readyClosed>>
                 ELSE wpc' = "lock" /\ UNCHANGED <<root, wfin, readyClosed>>
    /\ UNCHANGED <<callvars, hasher, heap, hashes, ref, proof,
                   added, lastRoot, lastProof, op, wphase, wh, wheight,
                   wstep, received, mu, chOpen>>

\* withHasher in the worker takes the mutex.
WorkerLock ==
    /\ wpc = "lock"
    /\ Lock("worker")
    /\ wpc' = "reset"
    /\ UNCHANGED <<callvars, hasher, heap, hashes, root, ref, proof,
                   added, lastRoot, lastProof, op, wphase, wh, wheight, wfin,
                   wstep, received, chOpen, readyClosed>>

\* The operands of the interiorHash call in progress: in the loop over ch
\* interiorHash(hasher, h[:0], hashes[height], h, &ref, &proof), in the final
\* loop interiorHash(hasher, root[:0], h, root, &ref, &proof).
WLeft == IF wphase = "add" THEN hashes[wheight + 1] ELSE hashes[wfin]

WRight == IF wphase = "add" THEN wh ELSE root

\* interiorHash up to h.Reset(): the proof step is taken from the operands;
\* for the empty tree, hasher.Reset() alone.
WorkerReset ==
    /\ wpc = "reset"
    /\ hasher' = Reset
    /\ IF wphase = "empty"
       THEN wpc' = "sum" /\ UNCHANGED <<proof, wstep>>
       ELSE LET l == heap[WLeft]
                r == heap[WRight]
                isLeft == ref # Nil /\ heap[ref] = l
                isRight == ref # Nil /\ ~isLeft /\ heap[ref] = r
                step == IF isLeft THEN [H |-> r, Left |-> FALSE]
                                  ELSE [H |-> l, Left |-> TRUE]
            IN  /\ wstep' = (isLeft \/ isRight)
                /\ proof' = IF isLeft \/ isRight THEN Append(proof, step) ELSE proof
                /\ wpc' = "write1"
    /\ UNCHANGED <<callvars, heap, hashes, root, ref,
                   added, lastRoot, lastProof, op, wphase, wh, wheight, wfin,
                   received, mu, chOpen, readyClosed>>

\* h.Write([]byte{1}); h.Write(left); h.Write(right).
WorkerWrite ==
    /\ wpc \in {"write1", "writeLeft", "writeRight"}
    /\ hasher' = CASE wpc = "write1" -> Write(hasher, <<B(1)>>)
                   [] wpc = "writeLeft" -> Write(hasher, heap[WLeft])
                   [] wpc = "writeRight" -> Write(hasher, heap[WRight])
    /\ wpc' = CASE wpc = "write1" -> "writeLeft"
                [] wpc = "writeLeft" -> "writeRight"
                [] wpc = "writeRight" -> "sum"
    /\ UNCHANGED <<callvars, heap, hashes, root, ref, proof,
                   added, lastRoot, lastProof, op, wphase, wh, wheight, wfin,
                   wstep, received, mu, chOpen, readyClosed>>

\* out = h.Sum(out) into the buffer of the right operand, and *ref = out
\* after a step; for the empty tree root = hasher.Sum(nil).
WorkerSum ==
    /\ wpc = "sum"
    /\ IF wphase = "empty"
       THEN /\ heap' = Append(heap, Sum(hasher, <<>>))
            /\ root' = Len(heap) + 1
            /\ UNCHANGED ref
       ELSE /\ heap' = [heap EXCEPT ![WRight] = Sum(hasher, <<>>)]
            /\ ref' = IF wstep THEN WRight ELSE ref
            /\ UNCHANGED root
    /\ wpc' = "unlock"
    /\ UNCHANGED <<callvars, hasher, hashes, proof,
                   added, lastRoot, lastProof, op, wphase, wh, wheight, wfin,
                   wstep, received, mu, chOpen, readyClosed>>

\* withHasher releases the mutex; then the level is vacated and the loop
\* goes on ("add"), the final loop goes on ("final"), or the goroutine
\* returns and close(ready) runs ("empty").
WorkerUnlock ==
    /\ wpc = "unlock"
    /\ Unlock("worker")
    /\ CASE wphase = "add" ->
              /\ hashes' = [hashes EXCEPT ![wheight + 1] = Nil]
              /\ wheight' = wheight + 1
              /\ wpc' = "level"
              /\ UNCHANGED <<wfin, readyClosed>>
         [] wphase = "final" ->
              /\ wfin' = wfin + 1
              /\ wpc' = "final"
              /\ UNCHANGED <<hashes, wheight, readyClosed>>
         [] wphase = "empty" ->
              /\ readyClosed' = TRUE
              /\ wpc' = "done"
              /\ UNCHANGED <<hashes, wheight, wfin>>
    /\ UNCHANGED <<callvars, hasher, heap, root, ref, proof,
                   added, lastRoot, lastProof, op, wphase, wh, wstep, received,
                   chOpen>>

InitChan ==
    /\ Fresh
    /\ FrontierNew
    /\ vtop = NilTier
    /\ NoCaller
    /\ \/ NewTree
       \/ \E s \in Strs : NewProofTree(s)
       \/ NewHTree
       \/ \E s \in Strs : NewProofHTree(s)

\* The steps of the caller inside a call, and the steps of the worker.
CallerStep ==
    CallerLock \/ CallerHash \/ CallerSum \/ CallerUnlock \/ Send \/ CallerReturn

WorkerStep ==
    \/ WorkerRangeEnds \/ WorkerLevel \/ WorkerFinal \/ WorkerLock
    \/ WorkerReset \/ WorkerWrite \/ WorkerSum \/ WorkerUnlock

NextChan ==
    \/ \E s \in Strs : CallAdd(s) /\ UNCHANGED unused
    \/ \E call \in {"Root", "Proof"} : CallFinaliser(call) /\ UNCHANGED unused
    \/ CallerLock /\ UNCHANGED unused
    \/ CallerHash /\ UNCHANGED unused
    \/ CallerSum /\ UNCHANGED unused
    \/ CallerUnlock /\ UNCHANGED unused
    \/ Send /\ UNCHANGED unused
    \/ CallerReturn /\ UNCHANGED unused
    \/ WorkerRangeEnds /\ UNCHANGED unused
    \/ WorkerLevel /\ UNCHANGED unused
    \/ WorkerFinal /\ UNCHANGED unused
    \/ WorkerLock /\ UNCHANGED unused
    \/ WorkerReset /\ UNCHANGED unused
    \/ WorkerWrite /\ UNCHANGED unused
    \/ WorkerSum /\ UNCHANGED unused
    \/ WorkerUnlock /\ UNCHANGED unused

SpecChan == InitChan /\ [][NextChan]_vars

\* The Go scheduler runs every goroutine that can take a step; the caller
\* is free never to make another call.
SpecChanFair ==
    /\ SpecChan
    /\ WF_vars(CallerStep /\ UNCHANGED unused)
    /\ WF_vars(WorkerStep /\ UNCHANGED unused)

\* ------------------------------------------------- reference definitions
\* The leaf hashes of the added strings, in order.
Leaves == [i \in 1..Len(added) |-> <<"H", <<B(0)>> \o added[i]>>]

Occurs(s, seq) == \E i \in 1..Len(seq) : seq[i] = s

Count(s, seq) == Cardinality({i \in 1..Len(seq) : seq[i] = s})

\* The largest power of two strictly less than n, for n > 1.
RECURSIVE SplitFrom(_, _)
SplitFrom(k, n) == IF 2 * k < n THEN SplitFrom(2 * k, n) ELSE k

Split(n) == SplitFrom(1, n)

\* The reference tree hash of a non-empty sequence of digests.
RECURSIVE MTH(_)
MTH(seq) ==
    IF Len(seq) = 1 THEN seq[1]
    ELSE LET k == Split(Len(seq))
         IN  <<"H", <<B(1), MTH(SubSeq(seq, 1, k)), MTH(SubSeq(seq, k + 1, Len(seq)))>> >>

\* The siblings on the path from leaf i to the root of the reference tree,
\* bottom-up, each with the side it stands on.
RECURSIVE RefPath(_, _)
RefPath(seq, i) ==
    IF Len(seq) = 1 THEN <<>>
    ELSE LET k == Split(Len(seq))
             lo == SubSeq(seq, 1, k)
             hi == SubSeq(seq, k + 1, Len(seq))
         IN  IF i <= k
             THEN Append(RefPath(lo, i), [H |-> <<MTH(hi)>>, Left |-> FALSE])
             ELSE Append(RefPath(hi, i - k), [H |-> <<MTH(lo)>>, Left |-> TRUE])

\* The hash of the empty byte string: nothing written, summed.
EmptyStringHash == << <<"H", <<>> >> >>

\* Root() and Proof() have both returned since the last Add, and no Add
\* followed the finalisation.
RootReturned == late = 0 /\ rootFresh

ProofReturned == late = 0 /\ proofFresh /\ ref # Nil

\* ----------------------------------------------------------------- claims
\* C1: proof soundness.  A Tree made by NewProofTree(H, ref) and fed a
\* sequence in which ref occurs (repeats allowed) returns a proof whose
\* Hash(H, ref), on the raw string ref, equals Root().
C1_ProofSoundness ==
    (kind = "Tree" /\ RootReturned /\ ProofReturned /\ Occurs(refStr, added))
        => ProofHash(lastProof, refStr) = lastRoot

C1_Witness ==
    /\ kind = "Tree" /\ RootReturned /\ ProofReturned
    /\ Len(added) >= 5
    /\ Count(refStr, added) >= 2
    /\ Len(lastProof.Steps) >= 3
    /\ ProofHash(lastProof, refStr) = lastRoot

\* C2: for n >= 1 added leaf hashes Root() is the reference tree hash MTH,
\* which splits at the largest power of two strictly less than n and puts
\* the older subtree on the left.
C2_RootIsMTH ==
    (RootReturned /\ Len(added) >= 1) => lastRoot = <<MTH(Leaves)>>

C2_Witness ==
    /\ kind = "HTree" /\ RootReturned
    /\ Len(added) = 5
    /\ Count(added[1], added) = 1
    /\ lastRoot = <<MTH(Leaves)>>

\* C3: with no leaf added, Root() is the hash of the empty byte string, for
\* Tree and HTree alike.
C3_EmptyRoot ==
    (RootReturned /\ added = <<>>) => lastRoot = EmptyStringHash

C3_Witness ==
    /\ RootReturned /\ added = <<>>
    /\ kind = "Tree" /\ ref # Nil
    /\ lastRoot = EmptyStringHash

\* C4: Root() depends on the added sequence alone: whatever reference the
\* tree records a proof for, it returns the root a tree without reference
\* returns for the same sequence.
C4_RootIgnoresRef ==
    RootReturned => lastRoot = PlainRoot(added)

C4_Witness ==
    /\ RootReturned /\ ref # Nil
    /\ Len(added) >= 5
    /\ Len(proof) >= 2
    /\ lastRoot = PlainRoot(added)

\* C5: proof discrimination.  When the reference string of a proof Tree is
\* none of the added strings, Proof().Hash(H, ref) differs from Root().
C5_ProofDiscrimination ==
    (kind = "Tree" /\ RootReturned /\ ProofReturned /\ ~Occurs(refStr, added))
        => ProofHash(lastProof, refStr) # lastRoot

C5_Witness ==
    /\ kind = "Tree" /\ RootReturned /\ ProofReturned
    /\ ~Occurs(refStr, added)
    /\ Len(added) >= 3
    /\ ProofHash(lastProof, refStr) # lastRoot

C7_ProofIsPath ==
    (ProofReturned /\ Count(refStr, added) = 1)
        => \A i \in 1..Len(added) :
              added[i] = refStr => lastProof.Steps = RefPath(Leaves, i)

C7_Witness ==
    /\ ProofReturned /\ Count(refStr, added) = 1
    /\ Len(added) = 6
    /\ added[5] = refStr
    /\ lastProof.Steps = RefPath(Leaves, 5)

\* C8 as stated: the step list of a finalised proof tree is empty iff the
\* reference leaf was never added.
C8_EmptyIffNeverAdded ==
    ProofReturned => (lastProof.Steps = <<>> <=> ~Occurs(refStr, added))

\* C8 amended: the step list is empty iff the reference leaf was never
\* added or is the only leaf of the tree.
C8_EmptyIffNeverAddedOrAlone ==
    ProofReturned =>
        (lastProof.Steps = <<>> <=> (~Occurs(refStr, added) \/ Len(added) = 1))

C8_Witness ==
    /\ ProofReturned
    /\ added = <<refStr>>
    /\ lastProof.Steps = <<>>

\* C9: Root() and Proof() are idempotent finalisers.  A call that follows
\* an earlier call with no Add in between returns what that call returned,
\* and a finaliser call on a finalised tree changes neither the root nor
\* the recorded steps.
C9_FinalisersIdempotent ==
    [][/\ (op' = "Root" /\ rootFresh) => lastRoot' = lastRoot
       /\ (op' = "Proof" /\ proofFresh) => lastProof' = lastProof
       /\ (op' \in {"Root", "Proof"} /\ root # Nil)
             => (root' = root /\ heap' = heap /\ proof' = proof)]_vars

C9_Witness ==
    /\ repeated /\ rootFresh /\ proofFresh /\ late = 0
    /\ Len(added) >= 3
    /\ Len(proof) >= 2

\* C10: an Add after Root() or Proof() fails with a panic and is not
\* accepted.
C10_LateAddPanics ==
    late > 0 => panicked

\* C11: Proof() on a tree made without a reference fails with a panic and
\* returns no proof value.
C11_ProofWithoutRefPanics ==
    ref = Nil => (~lastProof.returned /\ (op = "Proof" => panicked))

C11_Witness ==
    /\ ref = Nil /\ op = "Proof" /\ panicked
    /\ Len(added) >= 2
    /\ ~lastProof.returned

\* Bit i of n, and the number of bits of n.
Bit(n, i) == (n \div (2 ^ i)) % 2 = 1

RECURSIVE BitLen(_)
BitLen(n) == IF n = 0 THEN 0 ELSE 1 + BitLen(n \div 2)

\* C12: before finalisation, after n Adds, level i of the stack is occupied
\* iff bit i of n is 1, and the stack ends at the highest set bit of n.
C12_LevelsAreBitsOfCount ==
    root = Nil =>
        /\ Len(hashes) = BitLen(Len(added))
        /\ \A i \in 1..Len(hashes) : (hashes[i] # Nil) <=> Bit(Len(added), i - 1)

C12_Witness ==
    /\ root = Nil
    /\ Len(added) = 5
    /\ Len(hashes) = 3
    /\ hashes[1] # Nil /\ hashes[2] = Nil /\ hashes[3] # Nil

\* The least k with 2^k >= m, for m >= 1.
RECURSIVE CeilLog2From(_, _)
CeilLog2From(k, m) == IF 2 ^ k >= m THEN k ELSE CeilLog2From(k + 1, m)

CeilLog2(m) == CeilLog2From(0, m)

\* C13: after n Adds the level stack holds at most ceil(log2(n+1)) entries.
C13_StackIsLogarithmic ==
    Len(hashes) <= CeilLog2(Len(added) + 1)

C13_Witness ==
    /\ Len(added) = 6
    /\ Len(hashes) = 3
    /\ CeilLog2(Len(added) + 1) = 3

\* The level above seq: neighbours paired; the last hash of an odd-sized
\* level is paired with itself (dup) or carried up unchanged.
NextLevel(seq, dup) ==
    [i \in 1..((Len(seq) + 1) \div 2) |->
        IF 2 * i <= Len(seq) THEN <<"H", <<B(1), seq[2 * i - 1], seq[2 * i]>> >>
        ELSE IF dup THEN <<"H", <<B(1), seq[2 * i - 1], seq[2 * i - 1]>> >>
        ELSE seq[2 * i - 1]]

RECURSIVE LevelRoot(_, _)
LevelRoot(seq, dup) ==
    IF Len(seq) = 1 THEN seq[1] ELSE LevelRoot(NextLevel(seq, dup), dup)

RECURSIVE IsPow2(_)
IsPow2(n) == n = 1 \/ (n > 1 /\ n % 2 = 0 /\ IsPow2(n \div 2))

\* C14 as stated: the root is that of the scheme which completes each
\* odd-sized level by pairing its last hash with itself.
C14_RootOfDuplicatingScheme ==
    (RootReturned /\ Len(added) >= 1) => lastRoot = <<LevelRoot(Leaves, TRUE)>>

\* C14 amended: the root is that of the scheme which carries the last hash
\* of an odd-sized level up unchanged; it is the root of the duplicating
\* scheme exactly when the number of leaves is a power of two.
C14_RootOfCarryingScheme ==
    (RootReturned /\ Len(added) >= 1) =>
        /\ lastRoot = <<LevelRoot(Leaves, FALSE)>>
        /\ (lastRoot = <<LevelRoot(Leaves, TRUE)>>) <=> IsPow2(Len(added))

C14_Witness ==
    /\ RootReturned
    /\ Len(added) = 5
    /\ lastRoot = <<LevelRoot(Leaves, FALSE)>>
    /\ lastRoot # <<LevelRoot(Leaves, TRUE)>>

\* ------------------------------------------------------- Frontier claims
IsPrefix(p, s) == Len(p) <= Len(s) /\ SubSeq(s, 1, Len(p)) = p

\* The paths of the zerotier terminals at or below tier, which sits at prefix.
RECURSIVE ZeroPaths(_, _)
ZeroPaths(tier, prefix) ==
    CASE tier.tag = "nil" -> {}
      [] tier.tag = "zero" -> {prefix}
      [] tier.tag = "uni" -> ZeroPaths(tier.t, Append(prefix, tier.b))
      [] tier.tag = "array" ->
            UNION { ZeroPaths(tier.el[b], Append(prefix, b)) : b \in FBytes }

\* The tier at path str below tier; NilTier when there is none.
RECURSIVE Descend(_, _)
Descend(tier, str) ==
    IF tier.tag = "nil" \/ Len(str) = 0 THEN tier
    ELSE CASE tier.tag = "zero" -> NilTier
           [] tier.tag = "uni" ->
                IF tier.b = str[1] THEN Descend(tier.t, Tail(str)) ELSE NilTier
           [] tier.tag = "array" -> Descend(tier.el[str[1]], Tail(str))

\* The number of times s was passed to the callback of the last Walk.
Emissions(s) == Cardinality({i \in 1..Len(emitted) : emitted[i] = s})

\* C15: directly after Exclude(p) with non-empty p, Check(p ++ x) returns
\* (p, true) for every string x, the empty one included.
C15_CheckAfterExclude ==
    (fop = "Exclude" /\ farg # <<>>) =>
        \A x \in FStrs : Check(top, farg \o x) = [prefix |-> farg, ok |-> TRUE]

C15_Witness ==
    /\ fop = "Exclude" /\ farg = <<1>>
    /\ <<1, 2>> \in excluded
    /\ Check(top, <<1, 2, 1>>) = [prefix |-> <<1>>, ok |-> TRUE]

\* C16: with something excluded, Check(str) reports present iff some prefix
\* of str (str included) is the path of a Zero terminal, and the prefix it
\* returns is then that path; otherwise it reports absent.
C16_CheckFindsZeroTerminal ==
    (fop = "Check" /\ excluded \ {<<>>} # {}) =>
        LET hits == {k \in 0..Len(farg) :
                        SubSeq(farg, 1, k) \in ZeroPaths(top, <<>>)}
        IN  /\ fres.ok <=> hits # {}
            /\ \A k \in hits : fres.prefix = SubSeq(farg, 1, k)

C16_Witness ==
    /\ fop = "Check" /\ farg = <<1, 2>>
    /\ fres = [prefix |-> <<1>>, ok |-> TRUE]
    /\ top.tag = "array"
    /\ Descend(top, <<1>>) = Zero

\* A Check that ends on a node which is no terminal, or runs off a missing
\* edge, after a descent of at least one byte.
C16_WitnessAbsent ==
    /\ fop = "Check" /\ ~fres.ok
    /\ fres.prefix # <<>>
    /\ Len(fres.prefix) < Len(farg)

\* C17: while nothing has been excluded, Check(str) returns the empty prefix
\* and true for every str.
C17_CheckOnEmptyFrontier ==
    (fop = "Check" /\ excluded \ {<<>>} = {}) =>
        fres = [prefix |-> <<>>, ok |-> TRUE]

C17_Witness ==
    /\ fop = "Check" /\ farg = <<2, 1>>
    /\ excluded = {<<>>}
    /\ fres = [prefix |-> <<>>, ok |-> TRUE]

\* C18: Exclude of the empty string leaves the trie as it was, and with it
\* the results of every Check, of Walk and of the Merkle root.
C18_ExcludeEmptyIsNoOp ==
    [][(fop' = "Exclude" /\ farg' = <<>>) =>
          /\ top' = top
          /\ \A s \in FStrs : Check(top', s) = Check(top, s)
          /\ Walk(top') = Walk(top)
          /\ MerkleTreeRoot(top') = MerkleTreeRoot(top)]_vars

C18_Witness ==
    /\ fop = "Exclude" /\ farg = <<>>
    /\ top.tag = "array"
    /\ excluded \ {<<>>} # {}

\* C19 as stated: Walk passes the path of every Zero terminal to the
\* callback once, and nothing else.
C19_WalkEmitsZeroPaths ==
    fop = "Walk" =>
        /\ \A p \in ZeroPaths(top, <<>>) : Emissions(p) = 1
        /\ \A i \in 1..Len(emitted) : emitted[i] \in ZeroPaths(top, <<>>)

\* C19 amended: Walk never passes the path of a Zero terminal; for every Zero
\* terminal at path p it passes p ++ <<b>> once for every byte b; and every
\* string it passes is passed once and is not the path of any tier.
C19_WalkEmitsBelowZeroPaths ==
    fop = "Walk" =>
        /\ \A p \in ZeroPaths(top, <<>>) :
              /\ Emissions(p) = 0
              /\ \A b \in FBytes : Emissions(Append(p, b)) = 1
        /\ \A i \in 1..Len(emitted) :
              /\ Emissions(emitted[i]) = 1
              /\ Descend(top, emitted[i]).tag = "nil"

C19_Witness ==
    /\ fop = "Walk"
    /\ Cardinality(ZeroPaths(top, <<>>)) = 2
    /\ <<1>> \in ZeroPaths(top, <<>>)
    /\ Emissions(<<1>>) = 0
    /\ Emissions(<<1, 2>>) = 1

\* C20: no string that Walk emits is equal to, or a prefix of, a string that
\* was passed to Exclude.
C20_WalkAvoidsExcluded ==
    fop = "Walk" =>
        \A i \in 1..Len(emitted) : \A e \in excluded : ~IsPrefix(emitted[i], e)

\* The paths of all tiers at or below tier, which sits at prefix.
RECURSIVE NodePaths(_, _)
NodePaths(tier, prefix) ==
    CASE tier.tag = "nil" -> {}
      [] tier.tag = "zero" -> {prefix}
      [] tier.tag = "uni" -> {prefix} \cup NodePaths(tier.t, Append(prefix, tier.b))
      [] tier.tag = "array" ->
            {prefix} \cup
            UNION { NodePaths(tier.el[b], Append(prefix, b)) : b \in FBytes }

\* The strings q ++ <<b>> with q the path of a tier that has no child on b.
MissingEdges(t) ==
    { Append(q, b) : q \in NodePaths(t, <<>>), b \in FBytes }
        \ NodePaths(t, <<>>)

\* C21: Walk emits exactly the strings q ++ <<b>> such that q is the path of
\* an existing tier which has no child on byte b, each of them once.
C21_WalkEmitsMissingEdges ==
    fop = "Walk" =>
        /\ {emitted[i] : i \in 1..Len(emitted)} = MissingEdges(top)
        /\ Len(emitted) = Cardinality(MissingEdges(top))

\* After Exclude(<<1>>) and Exclude(<<1, 2>>): <<1, 2>> is no longer emitted,
\* its one-byte extensions are, and <<2>> and <<1, 1>> remain.
C21_Witness ==
    /\ fop = "Walk"
    /\ excluded = {<<1>>, <<1, 2>>}
    /\ emitted = << <<1, 1>>, <<1, 2, 1>>, <<1, 2, 2>>, <<2>> >>

\* Strict lexicographic order of byte strings.
RECURSIVE LexLess(_, _)
LexLess(a, b) ==
    IF Len(b) = 0 THEN FALSE
    ELSE IF Len(a) = 0 THEN TRUE
    ELSE IF a[1] # b[1] THEN a[1] < b[1]
    ELSE LexLess(Tail(a), Tail(b))

\* C22: the strings passed to the Walk callback arrive in strictly ascending
\* lexicographic byte order.
C22_WalkAscending ==
    fop = "Walk" =>
        \A i \in 1..(Len(emitted) - 1) : LexLess(emitted[i], emitted[i + 1])

C22_Witness ==
    /\ fop = "Walk"
    /\ Len(emitted) >= 4
    /\ top.tag = "array"
    /\ \E i \in 1..(Len(emitted) - 1) : Len(emitted[i]) > Len(emitted[i + 1])

\* C23: Check, Walk and MerkleTree leave the frontier as it was: what a Check
\* or a Walk returned is what the same call returns on the frontier they
\* leave, and a Walk directly after a Walk emits the same sequence.
C23_ReadersLeaveFrontier ==
    [][fop' \in {"Check", "Walk", "MerkleTree"} =>
          /\ top' = top
          /\ excluded' = excluded
          /\ fop' = "Check" => fres' = Check(top', farg')
          /\ fop' = "Walk" => emitted' = Walk(top')
          /\ (fop = "Walk" /\ fop' = "Walk") => emitted' = emitted]_vars

C23_Witness ==
    /\ fop = "Walk" /\ frepeat
    /\ Len(emitted) >= 4
    /\ emitted = Walk(top)

\* C24: Exclude(s) directly after Exclude(s) leaves the trie as the first
\* call left it.
C24_ExcludeIdempotent ==
    [][(fop' = "Exclude" /\ frepeat') => top' = top]_vars

C24_Witness ==
    /\ fop = "Exclude" /\ frepeat
    /\ farg = <<1, 2>>
    /\ top.tag = "array"

IsProperPrefix(p, s) == Len(p) < Len(s) /\ IsPrefix(p, s)

SameTrie(t1, t2) ==
    /\ NodePaths(t1, <<>>) = NodePaths(t2, <<>>)
    /\ ZeroPaths(t1, <<>>) = ZeroPaths(t2, <<>>)

\* C26: Exclude(l) directly after Exclude(s), with s a non-empty proper prefix
\* of l, extends through the Zero terminal at s: the terminal moves from s to
\* l, the tiers on the way to l are added and nothing else changes; when s
\* was the only exclusion, the trie is that of Exclude(l) alone.
C26_LongerExtendsThroughShorter ==
    [][(/\ fop = "Exclude" /\ farg # <<>>
        /\ fop' = "Exclude" /\ IsProperPrefix(farg, farg')) =>
          LET s == farg
              l == farg'
          IN  /\ Descend(top, s) = Zero
              /\ Descend(top', s).tag = "uni"
              /\ Descend(top', l) = Zero
              /\ ZeroPaths(top', <<>>) = (ZeroPaths(top, <<>>) \ {s}) \cup {l}
              /\ NodePaths(top', <<>>) =
                    NodePaths(top, <<>>) \cup
                    {SubSeq(l, 1, k) : k \in Len(s)..Len(l)}
              /\ (excluded \ {<<>>} = {s}) =>
                    /\ top' = ExcludeTop(NilTier, l)
                    /\ SameTrie(top', ExcludeTop(NilTier, l))]_vars

C26_Witness ==
    /\ fop = "Exclude" /\ farg = <<2, 1>> /\ ~frepeat
    /\ excluded = {<<2>>, <<2, 1>>}
    /\ top = ExcludeTop(NilTier, <<2, 1>>)
    /\ Descend(top, <<2>>).tag = "uni"

\* The child relation a trie exposes through get: the paths that a descent
\* with get can follow from tier, which sits at prefix.
RECURSIVE GetPaths(_, _)
GetPaths(tier, prefix) ==
    IF tier.tag = "nil" THEN {}
    ELSE {prefix} \cup
         UNION { GetPaths(get(tier, b), Append(prefix, b)) : b \in FBytes }

\* The paths among them that end in a zerotier.
RECURSIVE GetZeroPaths(_, _)
GetZeroPaths(tier, prefix) ==
    IF tier.tag = "nil" THEN {}
    ELSE IF tier.tag = "zero" THEN {prefix}
    ELSE UNION { GetZeroPaths(get(tier, b), Append(prefix, b)) : b \in FBytes }

\* The tags of the tiers of a trie.
RECURSIVE TierTags(_)
TierTags(tier) ==
    IF tier.tag = "nil" THEN {}
    ELSE {tier.tag} \cup UNION { TierTags(get(tier, b)) : b \in FBytes }

C27_WitnessMap ==
    /\ top.tag = "uni"
    /\ get(vtop, 1).tag = "map"
    /\ DOMAIN get(vtop, 1).m = FBytes

\* The number of leaves in the occupied levels of the stack above level i
\* (levels count from 0; level i is hashes[i + 1]).
RECURSIVE LeavesAbove(_)
LeavesAbove(i) ==
    IF i + 1 >= Len(hashes) THEN 0
    ELSE LeavesAbove(i + 1) + (IF hashes[i + 2] # Nil THEN 2 ^ (i + 1) ELSE 0)

\* C28: before finalisation every occupied level i holds the reference tree
\* hash of a block of 2^i consecutive added leaves, and the blocks, from the
\* highest level down, partition the added sequence in insertion order.
C28_LevelsAreBlockRoots ==
    root = Nil =>
        /\ \A i \in 0..(Len(hashes) - 1) :
              hashes[i + 1] # Nil =>
                  heap[hashes[i + 1]] =
                      << MTH(SubSeq(Leaves, LeavesAbove(i) + 1,
                                    LeavesAbove(i) + 2 ^ i)) >>
        /\ LeavesAbove(-1) = Len(added)

C28_Witness ==
    /\ root = Nil
    /\ Len(added) = 6
    /\ hashes[1] = Nil /\ hashes[2] # Nil /\ hashes[3] # Nil
    /\ heap[hashes[3]] = << MTH(SubSeq(Leaves, 1, 4)) >>
    /\ heap[hashes[2]] = << MTH(SubSeq(Leaves, 5, 6)) >>

\* C29: after any Exclude calls every tier without a child is a zerotier and
\* no zerotier has a child; a unitier holds a tier on its byte, an arraytier
\* holds at least one; the top is nil exactly while nothing is excluded.
C29_ZeroOnlyAtTerminals ==
    /\ top.tag = "nil" <=> excluded \ {<<>>} = {}
    /\ \A p \in NodePaths(top, <<>>) :
          LET tier == Descend(top, p)
              children == {b \in FBytes : Descend(top, Append(p, b)).tag # "nil"}
          IN  /\ tier.tag = "zero" <=> children = {}
              /\ tier.tag = "uni" => (tier.t.tag # "nil" /\ children = {tier.b})
              /\ tier.tag \in {"zero", "uni", "array"}

C29_Witness ==
    /\ fop = "Exclude"
    /\ top.tag = "array"
    /\ Descend(top, <<1>>).tag = "uni"
    /\ Descend(top, <<1, 2>>) = Zero
    /\ Descend(top, <<2>>) = Zero

\* The buffers of the occupied levels, and the buffers the level stack, the
\* root and the reference point into.
Levels == {hashes[i] : i \in 1..Len(hashes)} \ {Nil}

Held == Levels \cup ({root, ref} \ {Nil})

\* H(0x01 ++ left ++ right), as one digest.
Interior(l, r) == << <<"H", <<B(1)>> \o l \o r>> >>

\* interiorHash called in this state with out = buf[:0]: buf holds the digest
\* of the operand values at entry, no other buffer changes, the earlier
\* steps stay, a new step holds an operand's value at entry, and ref, if it
\* moved, points at the digest.
DigestOfEntryValues(buf, left, right) ==
    LET s1 == interiorHash(HT, buf, left, right)
    IN  /\ s1.heap[buf] = Interior(heap[left], heap[right])
        /\ \A b \in 1..Len(heap) : b # buf => s1.heap[b] = heap[b]
        /\ Len(s1.heap) = Len(heap)
        /\ SubSeq(s1.proof, 1, Len(proof)) = proof
        /\ \A k \in (Len(proof) + 1)..Len(s1.proof) :
              s1.proof[k].H \in {heap[left], heap[right]}
        /\ s1.ref # ref => (s1.ref = buf /\ Len(s1.proof) = Len(proof) + 1)
        /\ (ref # Nil /\ heap[ref] \in {heap[left], heap[right]}) => s1.ref = buf

\* The index of the first added string equal to s.
FirstAt(s) == CHOOSE i \in 1..Len(added) :
                  added[i] = s /\ \A j \in 1..(i - 1) : added[j] # s

\* The added leaves under the most recently computed ancestor of leaf i:
\* all of them once the tree is finalised, else the block of the level that
\* holds leaf i.
AncestorBlock(i) ==
    IF root # Nil THEN Leaves
    ELSE LET k == CHOOSE k \in 0..(Len(hashes) - 1) :
                      /\ hashes[k + 1] # Nil
                      /\ LeavesAbove(k) < i
                      /\ i <= LeavesAbove(k) + 2 ^ k
         IN  SubSeq(Leaves, LeavesAbove(k) + 1, LeavesAbove(k) + 2 ^ k)

\* C30: interiorHash is safe when out is the buffer of an operand.  While no
\* Add has followed the finalisation: as Add and finish call it (left a
\* level's buffer, out right's buffer) and as Proof.Hash calls it (out the
\* accumulator, left or right) the digest is H(0x01 ++ left ++ right) of the
\* values at entry; the steps recorded so far are the siblings of the
\* reference leaf in the reference tree, whatever was written since; and the
\* reference digest is that of the latest computed ancestor of that leaf.
C30_InteriorHashAliasingSafe ==
    late = 0 =>
    /\ \A left \in Levels, right \in Held :
          /\ DigestOfEntryValues(right, left, right)
          /\ LET st == [HT EXCEPT !.ref = Nil]
             IN  /\ interiorHash(st, right, left, right).heap[right]
                        = ProofHashStep(heap[right], [H |-> heap[left], Left |-> TRUE])
                 /\ interiorHash(st, left, left, right).heap[left]
                        = ProofHashStep(heap[left], [H |-> heap[right], Left |-> FALSE])
                 /\ ProofHashStep(heap[left], [H |-> heap[right], Left |-> FALSE])
                        = Interior(heap[left], heap[right])
    /\ ref # Nil =>
          IF Occurs(refStr, added)
          THEN LET i == FirstAt(refStr)
               IN  /\ heap[ref] = << MTH(AncestorBlock(i)) >>
                   /\ proof = SubSeq(RefPath(Leaves, i), 1, Len(proof))
          ELSE /\ heap[ref] = LeafHash(<<>>, refStr)
               /\ proof = <<>>

\* A finalised proof tree of three leaves: finish wrote the root over the
\* buffer of its right operand, which ref pointed into.
C30_Witness ==
    /\ late = 0 /\ ref # Nil /\ root # Nil
    /\ ref = root
    /\ Len(added) = 3
    /\ added[3] = refStr
    /\ Len(proof) = 1
    /\ proof[1].H = << MTH(SubSeq(Leaves, 1, 2)) >>
    /\ heap[ref] = << MTH(Leaves) >>

\* C31: Tree.Add neither keeps nor changes the caller's str.  The call leaves
\* the bytes of str as they were and no slice of the tree points into its
\* space; whatever the caller writes there afterwards, Root() returns the
\* root of the strings as they were when added, and Proof() the path of the
\* reference string among them.
C31_AddCopiesStr ==
    [][/\ op' = "Add" => (heap'[strbuf'] = heap[strbuf] /\ strbuf' \notin Held')
       /\ op' = "Write" =>
             (\A b \in Held' : heap'[b] = heap[b]) /\ Held' = Held
       /\ rootFresh' =>
             lastRoot' = IF added' = <<>> THEN EmptyStringHash
                         ELSE << MTH(Leaves') >>
       /\ (proofFresh' /\ ref' # Nil /\ Occurs(refStr', added')) =>
             lastProof'.Steps = RefPath(Leaves', FirstAt(refStr)')]_vars

\* Root() after three Adds from one buffer that the caller overwrote after
\* the last of them.
C31_Witness ==
    /\ op = "Root" /\ rootFresh
    /\ Len(added) = 3
    /\ added[1] # added[2] /\ added[2] # added[3]
    /\ heap[strbuf] # added[3]
    /\ lastRoot = << MTH(Leaves) >>

\* The last call was an Add of an empty item.
EmptyAdded == op = "Add" /\ added # <<>> /\ added[Len(added)] = <<>>

\* C32: HTree.Add rejects an empty item: the call fails and the level stack
\* stays as it was, so that no level ever holds an empty item and no item
\* is taken for a vacant level.
C32_EmptyItemRejected ==
    [][EmptyAdded' => (panicked' /\ hashes' = hashes /\ heap' = heap)]_vars

\* C33: exclusion is stable.  Once Exclude(p) was called with a non-empty p,
\* Check reports every string that p is a prefix of as present, in every
\* later state.
C33_ExclusionStable ==
    \A p \in excluded \ {<<>>} :
        \A s \in FStrs : IsPrefix(p, s) => Check(top, s).ok

\* Two frontiers that no Check, Walk or MerkleTree tells apart.
SameAnswers(t1, t2) ==
    /\ \A s \in FStrs : Check(t1, s) = Check(t2, s)
    /\ Walk(t1) = Walk(t2)
    /\ MerkleTreeRoot(t1) = MerkleTreeRoot(t2)

\* C34: Exclude is order-independent.  From every reachable frontier and for
\* all non-empty strings a and b, Exclude(a); Exclude(b) and Exclude(b);
\* Exclude(a) give frontiers with the same Check results, the same Walk
\* sequence and the same Merkle root.
C34_ExcludeOrderIndependent ==
    \A a \in FStrs \ {<<>>}, b \in FStrs \ {<<>>} :
        SameAnswers(ExcludeTop(ExcludeTop(top, a), b),
                    ExcludeTop(ExcludeTop(top, b), a))

\* The strings excluded so far, without the empty ones that Exclude ignores.
Stored == excluded \ {<<>>}

\* For every string t of length L: an excluded t is reported by Check with
\* itself as the prefix and Walk emits no prefix of t; any other t is
\* reported absent and Walk emits exactly one prefix of t.
ExactlyOneOfAtLength(L) ==
    LET w == Walk(top)
    IN  \A t \in {s \in FStrs : Len(s) = L} :
            LET hits == {i \in 1..Len(w) : IsPrefix(w[i], t)}
            IN  IF t \in Stored
                THEN Check(top, t) = [prefix |-> t, ok |-> TRUE] /\ hits = {}
                ELSE ~Check(top, t).ok /\ Cardinality(hits) = 1

\* C35 as stated: whenever all excluded strings have one length L >= 1, which
\* is also so when nothing has been excluded.
C35_UniformLengthPartition ==
    \A L \in 1..MaxStrLen :
        (\A p \in Stored : Len(p) = L) => ExactlyOneOfAtLength(L)

\* C35 amended: when at least one string has been excluded and all excluded
\* strings have one length L >= 1, every string of length L is either
\* excluded, reported present with itself as the prefix and without a prefix
\* in the walk, or not excluded, reported absent and with exactly one prefix
\* in the walk.
C35_UniformLengthPartitionNonEmpty ==
    \A L \in 1..MaxStrLen :
        (Stored # {} /\ \A p \in Stored : Len(p) = L) => ExactlyOneOfAtLength(L)

C35_Witness ==
    /\ Stored = {<<1, 2>>, <<2, 1>>}
    /\ top.tag = "array"
    /\ Check(top, <<1, 2>>) = [prefix |-> <<1, 2>>, ok |-> TRUE]
    /\ ~Check(top, <<1, 1>>).ok
    /\ \E i \in 1..Len(Walk(top)) : Walk(top)[i] = <<1, 1>>

\* C36: finalised results are frozen.  Once Root() or Proof() has run, no
\* call of Add, Root or Proof changes the digest Root() returns or the steps
\* Proof() returns.
C36_FinalisedFrozen ==
    [][root # Nil =>
          /\ root' # Nil
          /\ heap'[root'] = heap[root]
          /\ proof' = proof]_vars

\* C37: in the channel-based variant no interleaving blocks for ever.  Under
\* fair scheduling an Add issued while h.ch is open returns, and Root() and
\* Proof() return, with ready closed by the worker after it has received
\* every added item.
C37_ChannelCallsReturn ==
    /\ (ccall = "Add" /\ cpc # "idle" /\ chOpen) ~> (cpc = "idle")
    /\ (cpc = "wait") ~>
          (cpc = "idle" /\ readyClosed /\ wpc = "done" /\ received = Len(added))

\* Root() has returned on a Tree after three Adds.
C37_Witness ==
    /\ kind = "Tree"
    /\ op = "Root" /\ cpc = "idle"
    /\ readyClosed
    /\ received = 3 /\ Len(added) = 3

\* The goroutines inside a hash computation: past Lock, not past Unlock.
CallerHashing == cpc \in {"reset", "write0", "writeStr", "sum", "unlock"}

WorkerHashing ==
    wpc \in {"reset", "write1", "writeLeft", "writeRight", "sum", "unlock"}

\* C38: the shared hasher is used under mutual exclusion.  The caller and
\* the worker are never both between Lock and Unlock, each holds the mutex
\* while it is, and at every Sum the hasher holds exactly what the summing
\* goroutine wrote since its Reset.
C38_HasherMutualExclusion ==
    /\ ~(CallerHashing /\ WorkerHashing)
    /\ CallerHashing => mu = "caller"
    /\ WorkerHashing => mu = "worker"
    /\ cpc = "sum" => hasher = LeafHashWritten(cstr)
    /\ (wpc = "sum" /\ wphase # "empty") =>
          hasher = InteriorWritten(heap[WLeft], heap[WRight])
    /\ (wpc = "sum" /\ wphase = "empty") => hasher = Reset

\* The caller of Tree.Add waits for the mutex while the worker is writing
\* the operands of an interior hash.
C38_Witness ==
    /\ cpc = "lock"
    /\ wpc = "writeRight"
    /\ mu = "worker"
    /\ wphase = "add" /\ wheight = 0
    /\ Len(added) = 3

\* The synchronous HTree (part_006) of this tree's constructor, fed the
\* added items and finalised.
SyncTree ==
    LET s0 == [hasher |-> Reset,
               heap |-> IF refStr = <<>> THEN <<>> ELSE << LeafHash(<<>>, refStr) >>,
               hashes |-> <<>>,
               root |-> Nil,
               ref |-> IF refStr = <<>> THEN Nil ELSE 1,
               proof |-> <<>>]
    IN  finish(Feed(s0, added, 1))

\* Root() / Proof() has just returned to the caller.
Returned(call) == op = call /\ cpc = "idle"

====
